---- MODULE Spec2Model ----
(***************************************************************************)
(* A model of the FSRS scheduling engine (src/src/fsrs.ts) and of its      *)
(* time utilities.                                                         *)
(*                                                                         *)
(* Numbers.  A JavaScript number is modelled as a decimal fixed-point      *)
(* value: the integer x stands for x / SCALE.  Day counts, reps and lapses *)
(* are plain integers.  Instants are whole hours since an epoch.  The      *)
(* inputs are chosen so that no operation meets NaN or Infinity (positive  *)
(* stability on every reviewed card, a full weight vector).                *)
(***************************************************************************)
EXTENDS Integers, Sequences, FiniteSets, TLC

\* One unit of the fixed-point representation: x stands for x / SCALE.
SCALE == 10000

\* ------------------------------------------------------------------------
\* Fixed-point arithmetic standing for IEEE double arithmetic
\* ------------------------------------------------------------------------

Abs(x) == IF x < 0 THEN -x ELSE x

Sgn(x) == IF x < 0 THEN -1 ELSE 1

Max(a, b) == IF a >= b THEN a ELSE b

Min(a, b) == IF a <= b THEN a ELSE b

\* a * b for a, b >= 0, rounded to the nearest unit, split so that no
\* intermediate product leaves the 32-bit range
MulPos(a, b) ==
    LET ah == a \div SCALE
        al == a % SCALE
        bh == b \div SCALE
        bl == b % SCALE
    IN  ah * bh * SCALE + ah * bl + al * bh + (al * bl + SCALE \div 2) \div SCALE

\* the product a * b
Mul(a, b) == Sgn(a) * Sgn(b) * MulPos(Abs(a), Abs(b))

\* the digits of r / b after the point, down to the unit, for 0 <= r < b
RECURSIVE FracDigits(_, _, _)
FracDigits(r, b, unit) ==
    IF unit = 1 THEN 0
    ELSE LET u == unit \div 10
         IN  ((r * 10) \div b) * u + FracDigits((r * 10) % b, b, u)

\* a / b for a >= 0, b > 0, truncated to the unit
DivPos(a, b) == (a \div b) * SCALE + FracDigits(a % b, b, SCALE)

\* the quotient a / b, b # 0
Div(a, b) == Sgn(a) * Sgn(b) * DivPos(Abs(a), Abs(b))

\* e^x for 0 <= x < 1 by its power series: term is x^n / n!, summed until it
\* falls below the unit
RECURSIVE ExpSeries(_, _, _)
ExpSeries(x, term, n) ==
    IF term = 0 THEN 0
    ELSE term + ExpSeries(x, MulPos(term, x) \div n, n + 1)

\* e^n for an integer n >= 0
RECURSIVE ExpInt(_)
ExpInt(n) == IF n = 0 THEN SCALE ELSE MulPos(ExpSeries(SCALE, SCALE, 1), ExpInt(n - 1))

\* Math.exp(x)
Exp(x) ==
    IF x >= 0
    THEN MulPos(ExpInt(x \div SCALE), ExpSeries(x % SCALE, SCALE, 1))
    ELSE DivPos(SCALE, MulPos(ExpInt((-x) \div SCALE), ExpSeries((-x) % SCALE, SCALE, 1)))

\* 2 * atanh(z) = 2 * (z + z^3/3 + z^5/5 + ...): pw is z^n
RECURSIVE AtanhSeries(_, _, _)
AtanhSeries(z2, pw, n) ==
    IF pw = 0 THEN 0
    ELSE (2 * pw) \div n + AtanhSeries(z2, MulPos(pw, z2), n + 2)

\* ln(x) for 1 <= x <= 2
LnUnit(x) ==
    LET z == DivPos(x - SCALE, x + SCALE)
    IN  AtanhSeries(MulPos(z, z), z, 1)

\* ln 2
Ln2 == LnUnit(2 * SCALE)

\* Math.log(x) for x > 0: halve or double into [1, 2), then the series
RECURSIVE Ln(_)
Ln(x) ==
    IF x >= 2 * SCALE THEN Ln2 + Ln((x + 1) \div 2)
    ELSE IF x < SCALE THEN Ln(2 * x) - Ln2
    ELSE LnUnit(x)

\* Math.pow(b, e) for b > 0
Pow(b, e) ==
    IF e = -SCALE THEN DivPos(SCALE, b)
    ELSE Exp(Mul(e, Ln(b)))

\* Math.round(x): the nearest integer, halves upwards
Round(x) == (x + SCALE \div 2) \div SCALE

\* Math.floor(a / b) for integers a and b > 0
FloorDiv(a, b) == a \div b

\* ------------------------------------------------------------------------
\* Types (src/src/types.ts)
\* ------------------------------------------------------------------------

\* enum Rating
Again == 1
Hard == 2
Good == 3
Easy == 4

Ratings == {Again, Hard, Good, Easy}

\* enum State
New == 0
Learning == 1
Review == 2
Relearning == 3

States == {New, Learning, Review, Relearning}

\* An optional value is a sequence of length 0 (undefined) or 1.
Undefined == << >>

Some(v) == << v >>

\* the caller's null (or undefined) card reference
NullCard == [null |-> TRUE]

\* ------------------------------------------------------------------------
\* Bounds of the model
\* ------------------------------------------------------------------------

\* schedule is called on cards with fewer than MaxReps reviews
MaxReps == 3

\* the instants the caller passes are 0, 12, ..., 12 * MaxTick hours
MaxTick == 2

Times == { 12 * k : k \in 0 .. MaxTick }

\* getRetrievability is asked at the instants 12 * k * k hours, k <= MaxWait
MaxWait == 3

QueryTimes == { 12 * k * k : k \in 0 .. MaxWait }

VARIABLES
    parameters,   \* FSRS.parameters, the engine's configuration
    card,         \* the card the caller holds, or NullCard
    result,       \* the caller's latest schedule call and what it did
    session,      \* where the caller's card comes from, how many candidates
                  \* the caller has applied to it since, and the now of the
                  \* review of the latest one
    supplied,     \* per field of the parameters, the value the caller passed
                  \* last to the constructor or to updateParameters
    copy,         \* the object the caller got from getParameters, or NoCopy
    retrieved,    \* what getRetrievability returned for the caller's card,
                  \* by the now of the call
    heap,         \* the objects of a schedule call, by reference
    rawData,      \* the record the caller passes to the card validator
    converted     \* what the card validator did with rawData

vars == << parameters, card, result, session, supplied, copy, retrieved,
          heap, rawData, converted >>

\* what the review loop leaves alone
restVars == << copy, retrieved, heap, rawData, converted >>

\* ------------------------------------------------------------------------
\* Time utilities
\* ------------------------------------------------------------------------

\* the length of a day, 1000 * 60 * 60 * 24 ms, in hours
DayLength == 24

\* calcElapsedDays rounding a started day up
calcElapsedDays_Ceil(lastReviewDate, now) ==
    IF lastReviewDate # Undefined
    THEN Max(0, FloorDiv(now - lastReviewDate[1] + DayLength - 1, DayLength))
    ELSE 0

\* calcElapsedDays without the clamp at 0
calcElapsedDays_NoClamp(lastReviewDate, now) ==
    IF lastReviewDate # Undefined
    THEN FloorDiv(now - lastReviewDate[1], DayLength)
    ELSE 0

calcElapsedDays(lastReviewDate, now) ==
    IF lastReviewDate # Undefined
    THEN Max(0, FloorDiv(now - lastReviewDate[1], DayLength))
    ELSE 0

\* ------------------------------------------------------------------------
\* The engine (src/src/fsrs.ts)
\* ------------------------------------------------------------------------

\* the spread with its operands the wrong way round: { ...partial, ...base }
Spread_BaseWins(base, partial) ==
    [f \in DOMAIN base \cup DOMAIN partial |->
        IF f \in DOMAIN base THEN base[f] ELSE partial[f]]

\* { ...base, ...partial }
Spread(base, partial) ==
    [f \in DOMAIN base \cup DOMAIN partial |->
        IF f \in DOMAIN partial THEN partial[f] ELSE base[f]]

\* the default FSRS-4.5 parameters
DefaultParameters ==
    [requestRetention |-> 9000,
     maximumInterval |-> 36500,
     w |-> << 4000, 6000, 24000, 58000, 49300, 9400, 8600, 100, 14900,
              1400, 9400, 21800, 500, 3400, 12600, 2900, 26100 >>]

\* the object with no field, spread for a constructor argument left out
NoArgument == << >>

constructor(partial) == Spread(DefaultParameters, partial)

\* this.parameters.w[i]
W(i) == parameters.w[i + 1]

createEmptyCard(now) ==
    [due |-> now,
     stability |-> 0,
     difficulty |-> 0,
     elapsedDays |-> 0,
     scheduledDays |-> 0,
     reps |-> 0,
     lapses |-> 0,
     state |-> New,
     lastReview |-> Undefined]

initStability(rating) == Max(W(rating - 1), SCALE \div 10)

initDifficulty(rating) ==
    LET difficulty == W(4) - (rating - 3) * W(5)
    IN  Min(Max(difficulty, SCALE), 10 * SCALE)

\* nextDifficulty without the clamp to [1, 10]
nextDifficulty_NoClamp(difficulty, rating) ==
    LET nextD == difficulty - W(6) * (rating - 3)
    IN  Mul(W(7), W(4)) + Mul(SCALE - W(7), nextD)

nextDifficulty(difficulty, rating) ==
    LET nextD == difficulty - W(6) * (rating - 3)
        reversionTarget == W(4)
        revertedD == Mul(W(7), reversionTarget) + Mul(SCALE - W(7), nextD)
    IN  Min(Max(revertedD, SCALE), 10 * SCALE)

nextStability(difficulty, stability, retrievability, rating) ==
    IF rating = Again
    THEN Mul(Mul(Mul(W(11), Pow(difficulty, -W(12))),
                 Pow(stability + SCALE, W(13)) - SCALE),
             Exp(Mul(SCALE - retrievability, W(14))))
    ELSE LET hardPenalty == IF rating = Hard THEN W(15) ELSE SCALE
             easyBonus == IF rating = Easy THEN W(16) ELSE SCALE
             growth == Mul(Mul(Mul(Exp(W(8)), 11 * SCALE - difficulty),
                               Pow(stability, -W(9))),
                           Exp(Mul(SCALE - retrievability, W(10))) - SCALE)
         IN  Mul(Mul(Mul(stability, SCALE + growth), hardPenalty), easyBonus)

\* nextInterval without the floor of one day
nextInterval_NoFloor(stability) ==
    LET interval == Mul(stability * 9, Div(SCALE, parameters.requestRetention) - SCALE)
    IN  Min(Round(interval), parameters.maximumInterval)

\* nextInterval without the cap at maximumInterval
nextInterval_NoCap(stability) ==
    LET interval == Mul(stability * 9, Div(SCALE, parameters.requestRetention) - SCALE)
    IN  Max(Round(interval), 1)

nextInterval(stability) ==
    LET interval == Mul(stability * 9, Div(SCALE, parameters.requestRetention) - SCALE)
    IN  Min(Max(Round(interval), 1), parameters.maximumInterval)

retrievability(elapsedDays, stability) ==
    Pow(SCALE + Div(elapsedDays * SCALE, 9 * stability), -SCALE)

\* The local time zone of the process: its clocks go forward by one hour at
\* the instant DstStart, as the clocks of a zone with daylight saving do
\* once a year.
DstStart == 10 * DayLength

\* the local zone's offset from UTC at the instant t, in hours
UtcOffset(t) == IF t < DstStart THEN 0 ELSE 1

\* the local wall-clock time of the instant t (getDate, getHours, ...)
LocalTime(t) == t + UtcOffset(t)

\* the instant of a local wall-clock time (what setDate stores); a local
\* time the clocks skip is read with the offset from before the change
UtcTime(local) ==
    LET before == local - UtcOffset(DstStart - 1)
        after == local - UtcOffset(DstStart)
    IN  IF before < DstStart THEN before
        ELSE IF after >= DstStart THEN after
        ELSE before

\* const result = new Date(date); result.setDate(result.getDate() + days):
\* the same local wall-clock time, days calendar days later
addDays(date, days) == UtcTime(LocalTime(date) + days * DayLength)

\* newCard without the count of the review
newCard_NoCount(c, now) == [c EXCEPT !.lastReview = Some(now)]

\* const newCard = { ...card }; newCard.reps += 1; newCard.lastReview = new Date(now)
newCard(c, now) == [c EXCEPT !.reps = @ + 1, !.lastReview = Some(now)]

\* ratedLapses counting a failed review twice
ratedLapses_Twice(c, rating) == IF rating = Again THEN c.lapses + 2 ELSE c.lapses

\* newCard.lapses after the rating branch
ratedLapses(c, rating) == IF rating = Again THEN c.lapses + 1 ELSE c.lapses

\* ratedState sending a passed Learning card back to Learning
ratedState_StayLearning(c, rating) ==
    IF rating = Again THEN Relearning
    ELSE IF c.state \in {New, Learning} THEN Learning ELSE Review

\* ratedState graduating a passed New card to Review at once
ratedState_Graduate(c, rating) ==
    IF rating = Again THEN Relearning ELSE Review

\* newCard.state after the rating branch
ratedState(c, rating) ==
    IF rating = Again THEN Relearning
    ELSE IF c.state = New THEN Learning ELSE Review

calculateScheduledCard(c, rating, now) ==
    LET elapsedDays ==
            IF c.state = New THEN 0
            ELSE IF c.lastReview # Undefined THEN calcElapsedDays(c.lastReview, now)
            ELSE 0
        difficulty ==
            IF c.state = New THEN initDifficulty(rating)
            ELSE nextDifficulty(c.difficulty, rating)
        stability ==
            IF c.state = New THEN initStability(rating)
            ELSE nextStability(difficulty, c.stability,
                               retrievability(elapsedDays, c.stability), rating)
        scheduledDays == nextInterval(stability)
    IN  [newCard(c, now) EXCEPT
            !.elapsedDays = elapsedDays,
            !.difficulty = difficulty,
            !.stability = stability,
            !.lapses = ratedLapses(c, rating),
            !.state = ratedState(c, rating),
            !.scheduledDays = scheduledDays,
            !.due = addDays(now, scheduledDays)]

\* buildReviewLog recording the elapsed days of this review as lastElapsedDays
buildReviewLog_ElapsedNow(c, rating, now) ==
    [rating |-> rating,
     state |-> c.state,
     due |-> c.due,
     stability |-> c.stability,
     difficulty |-> c.difficulty,
     elapsedDays |-> IF c.lastReview # Undefined
                     THEN calcElapsedDays(c.lastReview, now) ELSE 0,
     lastElapsedDays |-> IF c.lastReview # Undefined
                         THEN calcElapsedDays(c.lastReview, now) ELSE 0,
     scheduledDays |-> c.scheduledDays,
     review |-> now]

buildReviewLog(c, rating, now) ==
    [rating |-> rating,
     state |-> c.state,
     due |-> c.due,
     stability |-> c.stability,
     difficulty |-> c.difficulty,
     elapsedDays |-> IF c.lastReview # Undefined
                     THEN calcElapsedDays(c.lastReview, now) ELSE 0,
     lastElapsedDays |-> c.elapsedDays,
     scheduledDays |-> c.scheduledDays,
     review |-> now]

getRatingKey(rating) ==
    CASE rating = Again -> "again"
      [] rating = Hard -> "hard"
      [] rating = Good -> "good"
      [] rating = Easy -> "easy"

RatingKeys == { getRatingKey(r) : r \in Ratings }

\* the rating a key of SchedulingCards stands for
RatingOf(key) == CHOOSE r \in Ratings : getRatingKey(r) = key

buildSchedulingCards(c, now) ==
    [key \in RatingKeys |->
        [card |-> calculateScheduledCard(c, RatingOf(key), now),
         reviewLog |-> buildReviewLog(c, RatingOf(key), now)]]

\* schedule rejecting a now equal to lastReview as well
schedule_RejectEqual(c, now) ==
    IF c = NullCard
    THEN [status |-> "thrown", now |-> now,
          error |-> "card cannot be null or undefined"]
    ELSE IF c.lastReview # Undefined /\ now <= c.lastReview[1]
    THEN [status |-> "thrown", now |-> now,
          error |-> "Current time cannot be before the last review"]
    ELSE [status |-> "returned", now |-> now, cards |-> buildSchedulingCards(c, now)]

\* schedule(card, now): the error thrown or the value returned, with the
\* now the call was given
schedule(c, now) ==
    IF c = NullCard
    THEN [status |-> "thrown", now |-> now,
          error |-> "card cannot be null or undefined"]
    ELSE IF c.lastReview # Undefined /\ now < c.lastReview[1]
    THEN [status |-> "thrown", now |-> now,
          error |-> "Current time cannot be before the last review"]
    ELSE [status |-> "returned", now |-> now,
          cards |-> buildSchedulingCards(c, now)]

updateParameters(newParameters) == Spread(parameters, newParameters)

\* getRetrievability without the test of lastReview
getRetrievability_StateOnly(c, now) ==
    IF c.state = New THEN Undefined
    ELSE Some(retrievability(calcElapsedDays(c.lastReview, now), c.stability))

getRetrievability(c, now) ==
    IF c.state = New \/ c.lastReview = Undefined THEN Undefined
    ELSE Some(retrievability(calcElapsedDays(c.lastReview, now), c.stability))

\* return { ...this.parameters }: a new object with the fields of
\* this.parameters; its w is the reference this.parameters.w holds
getParameters == Spread(NoArgument, parameters)

\* ------------------------------------------------------------------------
\* Inputs
\* ------------------------------------------------------------------------

\* the partial parameter objects the caller passes to the constructor and
\* to updateParameters
ParameterArgs ==
    { [requestRetention |-> 9000, maximumInterval |-> 36500],
      [requestRetention |-> 7000],
      [maximumInterval |-> 2],
      [maximumInterval |-> 0] }

\* cards the caller builds by hand or reads from storage: reviewed cards
\* with positive stability, and New cards with or without a lastReview
StoredCards ==
    { [due |-> 24, stability |-> s, difficulty |-> d, elapsedDays |-> 1,
       scheduledDays |-> 1, reps |-> MaxReps - 1,
       lapses |-> IF st = Relearning THEN 1 ELSE 0, state |-> st,
       lastReview |-> lr] :
        s \in {SCALE \div 10, 5 * SCALE},
        d \in {0, SCALE, 10 * SCALE},
        st \in States \ {New},
        lr \in {Some(0), Some(12)} }
    \cup
    { [due |-> 0, stability |-> 5 * SCALE, difficulty |-> 5 * SCALE,
       elapsedDays |-> 0, scheduledDays |-> 0, reps |-> 0, lapses |-> 0,
       state |-> st, lastReview |-> Undefined] : st \in States \ {New} }
    \cup
    { [createEmptyCard(0) EXCEPT !.lastReview = Some(24)] }

\* partial parameter objects that carry a weight vector of their own
WeightArgs ==
    { [w |-> [DefaultParameters.w EXCEPT ![1] = SCALE, ![3] = 3 * SCALE]],
      [requestRetention |-> 8000,
       w |-> [DefaultParameters.w EXCEPT ![4] = 7 * SCALE]] }

\* the result variable before any call
NoResult == [status |-> "none"]

\* the copy variable before any getParameters call
NoCopy == [held |-> FALSE]

\* the values of the variables no call has touched yet
NoneRetrieved == << >>

NoHeap == << >>

NoRawData == [given |-> FALSE]

NotConverted == [status |-> "none"]

\* ------------------------------------------------------------------------
\* The state machine
\* ------------------------------------------------------------------------

\* the caller has called nothing but the constructor
CallerIdle ==
    /\ copy = NoCopy
    /\ retrieved = NoneRetrieved
    /\ heap = NoHeap
    /\ rawData = NoRawData
    /\ converted = NotConverted

Init ==
    /\ parameters = constructor(NoArgument)
    /\ supplied = DefaultParameters
    /\ card = NullCard
    /\ result = NoResult
    /\ session = [origin |-> "none", applied |-> 0, reviewedAt |-> Undefined]
    /\ CallerIdle

\* card = fsrs.createEmptyCard(now), for a caller that holds no card yet
CreateEmptyCard ==
    \E now \in Times :
        /\ card = NullCard
        /\ card' = createEmptyCard(now)
        /\ session' = [origin |-> "empty", applied |-> 0, reviewedAt |-> Undefined]
        /\ UNCHANGED << parameters, result, supplied, restVars >>

\* a caller that holds no card yet takes one from storage
LoadCard ==
    \E c \in StoredCards :
        /\ card = NullCard
        /\ card' = c
        /\ session' = [origin |-> "stored", applied |-> 0, reviewedAt |-> Undefined]
        /\ UNCHANGED << parameters, result, supplied, restVars >>

\* result = fsrs.schedule(card, now); a caller that has got its four
\* candidates picks one before it calls again
Schedule ==
    \E now \in Times :
        /\ result.status # "returned"
        /\ IF card = NullCard THEN TRUE ELSE card.reps < MaxReps
        /\ result' = schedule(card, now)
        /\ UNCHANGED << parameters, card, session, supplied, restVars >>

\* card = result[key].card: the caller applies the learner's rating
Pick ==
    \E key \in RatingKeys :
        /\ result.status = "returned"
        /\ card' = result.cards[key].card
        /\ session' = [session EXCEPT !.applied = @ + 1,
                                       !.reviewedAt = Some(result.now)]
        /\ result' = NoResult
        /\ retrieved' = NoneRetrieved
        /\ UNCHANGED << parameters, supplied, copy, heap, rawData, converted >>

\* fsrs.updateParameters(newParameters) for a newParameters of the set
\* args, between two reviews: the caller holds no candidates it has yet to
\* pick from. A newParameters that carries a w makes its array the engine's,
\* so the array of an earlier getParameters is the engine's no longer.
UpdateWith(args) ==
    \E newParameters \in args :
        /\ result.status # "returned"
        /\ parameters' = updateParameters(newParameters)
        /\ supplied' = [f \in DOMAIN supplied |->
                            IF f \in DOMAIN newParameters
                            THEN newParameters[f] ELSE supplied[f]]
        /\ copy' = IF copy.held /\ "w" \in DOMAIN newParameters
                   THEN [copy EXCEPT !.wIsEngineArray = FALSE]
                   ELSE copy
        /\ UNCHANGED << card, result, session, retrieved, heap, rawData, converted >>

UpdateParameters == UpdateWith(ParameterArgs)

Next ==
    \/ CreateEmptyCard
    \/ LoadCard
    \/ Schedule
    \/ Pick
    \/ UpdateParameters

Spec == Init /\ [][Next]_vars

\* ------------------------------------------------------------------------
\* schedule on objects: cards, logs and Dates by reference
\* ------------------------------------------------------------------------
\* heap maps a reference to the object it refers to. A Date object is
\* [time |-> instant]; a card or a log holds its numbers and, in its Date
\* fields, references. References are paths: << "card" >> and << "now" >>
\* are the arguments of schedule, << "again", "card" >> is the card object
\* made for the rating Again.

\* the caller's writes go to at most MaxWritten of the four candidates
MaxWritten == 1

CardRef == << "card" >>

NowRef == << "now" >>

CardsRef == << "cards" >>

\* heap with reference r referring to object o
Put(h, r, o) == [x \in DOMAIN h \cup {r} |-> IF x = r THEN o ELSE h[x]]

\* the card object at reference r as a value: its Date fields read
Deref(h, r) ==
    [h[r] EXCEPT !.due = h[@].time,
                 !.lastReview = IF @ = Undefined THEN Undefined
                                ELSE Some(h[@[1]].time)]

\* the new object of a spread or an object literal: never its source
NewObjectRef(key, kind, source) == << key, kind >>

\* a new Date(source) that is the source object itself
NewDateRef_Same(owner, field, source) == source

\* the Date object new Date(source) makes for a field of owner: never its
\* source
NewDateRef(owner, field, source) == Append(owner, field)

\* calculateScheduledCard(card, rating, now) on the heap
calculateScheduledCardAt(h, key) ==
    LET newCardRef == NewObjectRef(key, "card", CardRef)
        copied == Put(h, newCardRef, h[CardRef])
        lastReview == NewDateRef(newCardRef, "lastReview", NowRef)
        dated == Put(copied, lastReview, [time |-> copied[NowRef].time])
        new == calculateScheduledCard(Deref(h, CardRef), RatingOf(key), h[NowRef].time)
        assigned == [dated EXCEPT ![newCardRef] =
                        [new EXCEPT !.lastReview = Some(lastReview),
                                    !.due = dated[newCardRef].due]]
        due == NewDateRef(newCardRef, "due", NowRef)
        added == Put(assigned, due, [time |-> assigned[NowRef].time])
        set == [added EXCEPT ![due].time = addDays(@, new.scheduledDays)]
    IN  [set EXCEPT ![newCardRef].due = due]

\* buildReviewLog(card, rating, now) on the heap
buildReviewLogAt(h, key) ==
    LET logRef == NewObjectRef(key, "log", CardRef)
        due == NewDateRef(logRef, "due", h[CardRef].due)
        review == NewDateRef(logRef, "review", NowRef)
        log == buildReviewLog(Deref(h, CardRef), RatingOf(key), h[NowRef].time)
        dated == Put(Put(h, due, [time |-> h[h[CardRef].due].time]),
                     review, [time |-> h[NowRef].time])
    IN  Put(dated, logRef, [log EXCEPT !.due = due, !.review = review])

\* the keys of SchedulingCards in the order of the forEach
KeysInOrder == [i \in 1 .. 4 |-> getRatingKey(i)]

\* the body of the forEach for one rating
forEachBodyAt(h, key) ==
    CHOOSE out \in { buildReviewLogAt(scheduled, key) :
                        scheduled \in { calculateScheduledCardAt(h, key) } } : TRUE

\* the forEach over the ratings keys, one after the other
RECURSIVE forEachAt(_, _)
forEachAt(h, keys) ==
    IF keys = << >> THEN h
    ELSE CHOOSE out \in { forEachAt(next, Tail(keys)) :
                             next \in { forEachBodyAt(h, Head(keys)) } } : TRUE

\* buildSchedulingCards(card, now) on the heap: the four ratings, then the
\* object that holds the eight references
buildSchedulingCardsAt(h) ==
    Put(forEachAt(h, KeysInOrder), CardsRef,
        [key \in RatingKeys |->
            [card |-> NewObjectRef(key, "card", CardRef),
             reviewLog |-> NewObjectRef(key, "log", CardRef)]])

\* the cards the caller passes by reference
ObjectCards ==
    { createEmptyCard(0) }
    \cup { c \in StoredCards : c.stability = 5 * SCALE /\ c.difficulty = SCALE }

\* the caller makes its card and its now
MakeObjects ==
    \E c \in ObjectCards, now \in Times :
        /\ heap = NoHeap
        /\ heap' =
              LET dates == Put(Put(NoHeap, << "card", "due" >>, [time |-> c.due]),
                               NowRef, [time |-> now])
                  all == IF c.lastReview = Undefined THEN dates
                         ELSE Put(dates, << "card", "lastReview" >>,
                                  [time |-> c.lastReview[1]])
              IN  Put(all, CardRef,
                      [c EXCEPT !.due = << "card", "due" >>,
                                !.lastReview = IF @ = Undefined THEN Undefined
                                               ELSE Some(<< "card", "lastReview" >>)])
        /\ card' = c
        /\ UNCHANGED << parameters, result, session, supplied, copy, retrieved,
                        rawData, converted >>

\* result = fsrs.schedule(card, now) on the caller's objects; result keeps
\* what the call returned or threw, by value
ScheduleObjects ==
    /\ heap # NoHeap
    /\ result = NoResult
    /\ result' = schedule(Deref(heap, CardRef), heap[NowRef].time)
    /\ heap' = IF result'.status = "returned"
               THEN buildSchedulingCardsAt(heap) ELSE heap
    /\ UNCHANGED << parameters, card, session, supplied, copy, retrieved,
                    rawData, converted >>

\* the candidate card of entry key as a value
CandidateAt(h, key) == Deref(h, h[CardsRef][key].card)

\* the candidates the caller has written to since schedule returned them
Written == { key \in RatingKeys : CandidateAt(heap, key) # result.cards[key].card }

\* result[key].card.reps = 0, or result[key].card.state = State.New
SetCandidateField(key) ==
    /\ result.status = "returned"
    /\ Cardinality(Written \cup {key}) <= MaxWritten
    /\ \E change \in { [reps |-> 0], [state |-> New] } :
          heap' = [heap EXCEPT ![heap[CardsRef][key].card] = Spread(@, change)]
    /\ UNCHANGED << parameters, card, result, session, supplied, copy,
                    retrieved, rawData, converted >>

\* result[key].card.due.setTime(...), or the same on its lastReview
SetCandidateDate(key) ==
    /\ result.status = "returned"
    /\ Cardinality(Written \cup {key}) <= MaxWritten
    /\ \E field \in {"due", "lastReview"} :
          LET held == heap[heap[CardsRef][key].card][field]
              date == IF field = "due" THEN held ELSE held[1]
          IN  heap' = [heap EXCEPT ![date].time = 1000 * DayLength]
    /\ UNCHANGED << parameters, card, result, session, supplied, copy,
                    retrieved, rawData, converted >>

ObjectsNext ==
    \/ MakeObjects
    \/ ScheduleObjects
    \/ \E key \in RatingKeys : SetCandidateField(key)
    \/ \E key \in RatingKeys : SetCandidateDate(key)

\* one schedule call on objects, and a caller that writes to its candidates
SpecObjects == Init /\ [][ObjectsNext]_vars

\* ------------------------------------------------------------------------
\* getRetrievability
\* ------------------------------------------------------------------------

\* fsrs.getRetrievability(card, now), between two reviews of the card
GetRetrievability ==
    \E now \in QueryTimes :
        /\ card # NullCard
        /\ result.status # "returned"
        /\ now \notin DOMAIN retrieved
        /\ retrieved' = [t \in DOMAIN retrieved \cup {now} |->
                             IF t = now THEN getRetrievability(card, now)
                             ELSE retrieved[t]]
        /\ UNCHANGED << parameters, card, result, session, supplied, copy,
                        heap, rawData, converted >>

RetrievabilityNext ==
    \/ CreateEmptyCard
    \/ LoadCard
    \/ (session.applied = 0 /\ Schedule)
    \/ Pick
    \/ GetRetrievability

\* one review under the default parameters, with a caller that asks for the
\* retrievability of its card before and after
SpecRetrievability == Init /\ [][RetrievabilityNext]_vars

\* ------------------------------------------------------------------------
\* The parameters: constructor, updateParameters, getParameters
\* ------------------------------------------------------------------------

\* new FSRS(arg) with or without a partial argument, and one empty card to
\* schedule under the parameters in force
ParametersInit ==
    \E arg \in {NoArgument} \cup ParameterArgs \cup WeightArgs :
        /\ parameters = constructor(arg)
        /\ supplied = [f \in DOMAIN DefaultParameters |->
                           IF f \in DOMAIN arg THEN arg[f] ELSE DefaultParameters[f]]
        /\ card = createEmptyCard(0)
        /\ result = NoResult
        /\ session = [origin |-> "empty", applied |-> 0, reviewedAt |-> Undefined]
        /\ CallerIdle

UpdateWeights == UpdateWith(WeightArgs)

\* copy = fsrs.getParameters()
GetParameters ==
    /\ copy' = [held |-> TRUE, object |-> getParameters, wIsEngineArray |-> TRUE]
    /\ UNCHANGED << parameters, card, result, session, supplied, retrieved,
                    heap, rawData, converted >>

\* the caller lets go of the candidates of its latest schedule call
Discard ==
    /\ result.status = "returned"
    /\ result' = NoResult
    /\ UNCHANGED << parameters, card, session, supplied, restVars >>

\* copy.requestRetention = 0.5, or copy.maximumInterval = 1
SetCopyField ==
    \E change \in { [requestRetention |-> SCALE \div 2], [maximumInterval |-> 1] } :
        /\ copy.held
        /\ copy' = [copy EXCEPT !.object = Spread(@, change)]
        /\ UNCHANGED << parameters, card, result, session, supplied, retrieved,
                        heap, rawData, converted >>

\* copy.w[0] = 5: an assignment to an element of the array copy.w refers
\* to, which is the engine's array while no updateParameters replaced it
SetCopyWeight ==
    /\ copy.held
    /\ copy' = [copy EXCEPT !.object.w[1] = 5 * SCALE]
    /\ parameters' = IF copy.wIsEngineArray
                      THEN [parameters EXCEPT !.w[1] = 5 * SCALE]
                      ELSE parameters
    /\ UNCHANGED << card, result, session, supplied, retrieved, heap, rawData,
                    converted >>

ParametersNext ==
    \/ UpdateParameters
    \/ UpdateWeights
    \/ GetParameters
    \/ Schedule
    \/ Discard

\* the engine under calls of updateParameters, getParameters and schedule
SpecParameters == ParametersInit /\ [][ParametersNext]_vars

CopyNext ==
    \/ ParametersNext
    \/ SetCopyField
    \/ SetCopyWeight

\* the same, with a caller that writes to the object getParameters gave it
SpecCopy == ParametersInit /\ [][CopyNext]_vars

\* ------------------------------------------------------------------------
\* The card validator (src/unnamed/part_002): values of any type
\* ------------------------------------------------------------------------
\* A value the caller may put in a raw record carries its typeof in t. A
\* number is NaN or has the fixed-point value v; a string is the sequence
\* of its characters; an object is a Date with its time value, or a record
\* of fields, or an array.

JsUndefined == [t |-> "undefined"]

JsNull == [t |-> "null"]

\* Number.POSITIVE_INFINITY, above every number of the model
Infinity == 2000000000

Num(v) == [t |-> "number", nan |-> FALSE, v |-> v]

NaN == [t |-> "number", nan |-> TRUE, v |-> 0]

Str(chars) == [t |-> "string", s |-> chars]

Bool(b) == [t |-> "boolean", v |-> b]

\* a Date object; time is NaN for an Invalid Date
DateObject(time) == [t |-> "object", class |-> "Date", time |-> time]

\* a plain object with the fields of the record fields
Object(fields) == [t |-> "object", class |-> "Object", fields |-> fields]

EmptyArray == [t |-> "object", class |-> "Array", fields |-> << >>]

\* typeof value
TypeOf(value) == IF value.t = "null" THEN "object" ELSE value.t

\* value in a condition: !value is ~Truthy(value)
Truthy(value) ==
    CASE value.t \in {"undefined", "null"} -> FALSE
      [] value.t = "number" -> ~value.nan /\ value.v # 0
      [] value.t = "string" -> value.s # << >>
      [] value.t = "boolean" -> value.v
      [] OTHER -> TRUE

\* rawData.field: undefined for a field the object has not
Get(object, field) ==
    IF field \in DOMAIN object.fields THEN object.fields[field] ELSE JsUndefined

\* value instanceof Date
IsDate(value) == value.t = "object" /\ value.class = "Date"

Digits == << "0", "1", "2", "3", "4", "5", "6", "7", "8", "9" >>

IsDigit(c) == \E i \in DOMAIN Digits : Digits[i] = c

DigitValue(c) == (CHOOSE i \in DOMAIN Digits : Digits[i] = c) - 1

\* the longest prefix of chars that is made of digits
RECURSIVE DigitsPrefix(_)
DigitsPrefix(chars) ==
    IF chars # << >> /\ IsDigit(Head(chars))
    THEN << Head(chars) >> \o DigitsPrefix(Tail(chars))
    ELSE << >>

\* chars without its leading white space
RECURSIVE TrimStart(_)
TrimStart(chars) ==
    IF chars # << >> /\ Head(chars) = " " THEN TrimStart(Tail(chars)) ELSE chars

\* the whole number a sequence of digits writes
RECURSIVE IntegerOf(_)
IntegerOf(digits) ==
    IF digits = << >> THEN 0
    ELSE 10 * IntegerOf(SubSeq(digits, 1, Len(digits) - 1))
             + DigitValue(digits[Len(digits)])

\* the fraction the digits after a decimal point write, in units of
\* 1 / SCALE: the first digit counts unit / 10, the next unit / 100, ...
RECURSIVE FractionOf(_, _)
FractionOf(digits, unit) ==
    IF digits = << >> \/ unit < 10 THEN 0
    ELSE DigitValue(Head(digits)) * (unit \div 10)
             + FractionOf(Tail(digits), unit \div 10)

\* parseFloat(string): the number the longest prefix of the trimmed string
\* writes as [+-] digits [. digits], NaN when there is none. The strings of
\* the model carry no exponent and no Infinity.
parseFloat(chars) ==
    LET trimmed == TrimStart(chars)
        signed == trimmed # << >> /\ Head(trimmed) \in {"-", "+"}
        sign == IF trimmed # << >> /\ Head(trimmed) = "-" THEN -1 ELSE 1
        body == IF signed THEN Tail(trimmed) ELSE trimmed
        whole == DigitsPrefix(body)
        rest == SubSeq(body, Len(whole) + 1, Len(body))
        fraction == IF rest # << >> /\ Head(rest) = "."
                    THEN DigitsPrefix(Tail(rest)) ELSE << >>
    IN  IF whole = << >> /\ fraction = << >> THEN NaN
        ELSE Num(sign * (IntegerOf(whole) * SCALE + FractionOf(fraction, SCALE)))

\* new Date(string). A date string of the model is the decimal digits of
\* its instant, which stand for an ISO 8601 string of that instant; any
\* other string gives an Invalid Date.
NewDate(chars) ==
    IF chars # << >> /\ DigitsPrefix(chars) = chars
    THEN DateObject(Num(IntegerOf(chars)))
    ELSE DateObject(NaN)

LowerCase == << "a", "e", "g", "i", "l", "n", "r", "v", "w" >>

UpperCase == << "A", "E", "G", "I", "L", "N", "R", "V", "W" >>

\* string.toUpperCase(), over the letters of the four state names
toUpperCase(chars) ==
    [i \in DOMAIN chars |->
        IF \E k \in DOMAIN LowerCase : LowerCase[k] = chars[i]
        THEN UpperCase[CHOOSE k \in DOMAIN LowerCase : LowerCase[k] = chars[i]]
        ELSE chars[i]]

\* Number.isInteger(num)
IsInteger(num) == ~num.nan /\ num.v # Infinity /\ num.v # -Infinity /\ num.v % SCALE = 0

\* ------------------------------------------------------------------------
\* The card validator: validateAndConvert
\* ------------------------------------------------------------------------
\* A validation step gives Ok(value) or Throw(error). An error is its
\* message: the template of the message and what the template is filled
\* with (fieldName, value or num, typeof value, min, max).

Ok(value) == [ok |-> TRUE, value |-> value]

Throw(error) == [ok |-> FALSE, error |-> error]

\* const STATE_MAP, by the characters of its keys
STATE_MAP ==
    (<< "N", "E", "W" >> :> New)
    @@ (<< "L", "E", "A", "R", "N", "I", "N", "G" >> :> Learning)
    @@ (<< "R", "E", "V", "I", "E", "W" >> :> Review)
    @@ (<< "R", "E", "L", "E", "A", "R", "N", "I", "N", "G" >> :> Relearning)

\* validateState comparing the string as it is written
validateState_CaseSensitive(state) ==
    IF TypeOf(state) # "string"
    THEN Throw([template |-> "Invalid state: must be a string, got ${typeof state}",
                typeName |-> TypeOf(state)])
    ELSE IF state.s \notin DOMAIN STATE_MAP
         THEN Throw([template |-> "Invalid state: \"${state}\". Must be one of: ${validStates}",
                     value |-> state])
         ELSE Ok(STATE_MAP[state.s])

validateState(state) ==
    IF TypeOf(state) # "string"
    THEN Throw([template |-> "Invalid state: must be a string, got ${typeof state}",
                typeName |-> TypeOf(state)])
    ELSE LET upperState == toUpperCase(state.s)
         IN  IF upperState \notin DOMAIN STATE_MAP
             THEN Throw([template |-> "Invalid state: \"${state}\". Must be one of: ${validStates}",
                         value |-> state])
             ELSE Ok(STATE_MAP[upperState])

\* validateDate: Ok carries the instant of the Date returned
validateDate(value, fieldName) ==
    IF ~Truthy(value)
    THEN Throw([template |-> "Invalid ${fieldName}: value is required",
                fieldName |-> fieldName])
    ELSE IF ~IsDate(value) /\ TypeOf(value) # "string"
    THEN Throw([template |-> "Invalid ${fieldName}: must be a Date or string, got ${typeof value}",
                fieldName |-> fieldName, typeName |-> TypeOf(value)])
    ELSE LET date == IF IsDate(value) THEN value ELSE NewDate(value.s)
         IN  IF date.time.nan
             THEN Throw([template |-> "Invalid ${fieldName}: \"${value}\" is not a valid date",
                         fieldName |-> fieldName, value |-> value])
             ELSE Ok(date.time.v)

\* validateNumber without the test against min and max
validateNumber_NoRange(value, fieldName, min, max) ==
    IF TypeOf(value) \notin {"number", "string"}
    THEN Throw([template |-> "Invalid ${fieldName}: must be a number or string, got ${typeof value}",
                fieldName |-> fieldName, typeName |-> TypeOf(value)])
    ELSE LET num == IF TypeOf(value) = "number" THEN value ELSE parseFloat(value.s)
         IN  IF num.nan
             THEN Throw([template |-> "Invalid ${fieldName}: \"${value}\" is not a valid number",
                         fieldName |-> fieldName, value |-> value])
             ELSE Ok(num.v)

\* validateNumber: Ok carries the number, in fixed point
validateNumber(value, fieldName, min, max) ==
    IF TypeOf(value) \notin {"number", "string"}
    THEN Throw([template |-> "Invalid ${fieldName}: must be a number or string, got ${typeof value}",
                fieldName |-> fieldName, typeName |-> TypeOf(value)])
    ELSE LET num == IF TypeOf(value) = "number" THEN value ELSE parseFloat(value.s)
         IN  IF num.nan
             THEN Throw([template |-> "Invalid ${fieldName}: \"${value}\" is not a valid number",
                         fieldName |-> fieldName, value |-> value])
             ELSE IF num.v < min \/ num.v > max
             THEN Throw([template |-> "Invalid ${fieldName}: ${num} must be between ${min} and ${max}",
                         fieldName |-> fieldName, value |-> num, min |-> min, max |-> max])
             ELSE Ok(num.v)

validateInteger(value, fieldName, min, max) ==
    LET num == validateNumber(value, fieldName, min, max)
    IN  IF ~num.ok THEN num
        ELSE IF ~IsInteger(Num(num.value))
        THEN Throw([template |-> "Invalid ${fieldName}: ${num} must be an integer",
                    fieldName |-> fieldName, value |-> Num(num.value)])
        ELSE num

\* a whole number of the validator as the engine's cards hold it
Whole(v) == v \div SCALE

\* validateAndConvert(rawData): the Card returned or the error thrown
validateAndConvert(raw) ==
    IF ~Truthy(raw) \/ TypeOf(raw) # "object"
    THEN [status |-> "thrown",
          error |-> [template |-> "Invalid card data: must be an object"]]
    ELSE
    LET state == validateState(Get(raw, "state"))
        due == validateDate(Get(raw, "due"), "due")
        lastReviewDate == validateDate(Get(raw, "lastReview"), "lastReview")
        lastReview == IF Truthy(Get(raw, "lastReview"))
                      THEN IF lastReviewDate.ok THEN Ok(Some(lastReviewDate.value))
                           ELSE lastReviewDate
                      ELSE Ok(Undefined)
        stability == validateNumber(Get(raw, "stability"), "stability", SCALE \div 10, Infinity)
        difficulty == validateNumber(Get(raw, "difficulty"), "difficulty", SCALE, 10 * SCALE)
        elapsedDays == validateNumber(Get(raw, "elapsedDays"), "elapsedDays", 0, Infinity)
        scheduledDays == IF Get(raw, "scheduledDays") # JsUndefined
                         THEN validateNumber(Get(raw, "scheduledDays"), "scheduledDays", 0, Infinity)
                         ELSE Ok(0)
        reps == validateInteger(Get(raw, "reps"), "reps", 0, Infinity)
        lapses == validateInteger(Get(raw, "lapses"), "lapses", 0, Infinity)
        steps == << state, due, lastReview, stability, difficulty, elapsedDays,
                    scheduledDays, reps, lapses >>
    IN  IF \E i \in DOMAIN steps : ~steps[i].ok
        THEN [status |-> "thrown",
              error |-> steps[CHOOSE i \in DOMAIN steps :
                                  ~steps[i].ok /\ \A j \in 1 .. i - 1 : steps[j].ok].error]
        ELSE IF state.value = New /\ reps.value > 0
        THEN [status |-> "thrown",
              error |-> [template |-> "New cards should have 0 reps"]]
        ELSE IF state.value = New /\ lastReview.value # Undefined
        THEN [status |-> "thrown",
              error |-> [template |-> "New cards should not have a lastReview date"]]
        ELSE IF reps.value > 0 /\ lastReview.value = Undefined
        THEN [status |-> "thrown",
              error |-> [template |-> "Cards with reps > 0 must have a lastReview date"]]
        ELSE IF lapses.value > reps.value
        THEN [status |-> "thrown",
              error |-> [template |-> "Lapses cannot be greater than reps"]]
        ELSE [status |-> "returned",
              card |-> [due |-> due.value,
                        stability |-> stability.value,
                        difficulty |-> difficulty.value,
                        elapsedDays |-> Whole(elapsedDays.value),
                        scheduledDays |-> Whole(scheduledDays.value),
                        reps |-> Whole(reps.value),
                        lapses |-> Whole(lapses.value),
                        state |-> state.value,
                        lastReview |-> lastReview.value]]

\* ------------------------------------------------------------------------
\* The card validator: inputs and calls
\* ------------------------------------------------------------------------

\* the date strings and Dates of the raw records
DueString == Str(<< "4", "8" >>)

LastReviewString == Str(<< "2", "4" >>)

InvalidDateString == Str(<< "i", "n", "v", "a", "l", "i", "d" >>)

\* validRawCard of the tests: a reviewed card, scheduledDays left out
ReviewedRawCard ==
    [due |-> DueString,
     stability |-> Num(58000),
     difficulty |-> Num(39900),
     elapsedDays |-> Num(0),
     reps |-> Num(SCALE),
     lapses |-> Num(0),
     state |-> Str(<< "R", "E", "V", "I", "E", "W" >>),
     lastReview |-> LastReviewString]

\* a card never reviewed, as storage may hold it
NewRawCard ==
    [due |-> DateObject(Num(48)),
     stability |-> Str(<< "0", ".", "1" >>),
     difficulty |-> Num(SCALE),
     elapsedDays |-> Str(<< "0" >>),
     scheduledDays |-> Num(0),
     reps |-> Num(0),
     lapses |-> Str(<< "0" >>),
     state |-> Str(<< "n", "e", "w" >>),
     lastReview |-> JsNull]

\* the values the caller may give each field
FieldValues ==
    [due |-> { DueString, InvalidDateString, DateObject(Num(48)), DateObject(NaN),
               Num(48), Str(<< >>), JsNull },
     lastReview |-> { LastReviewString, InvalidDateString, DateObject(Num(24)),
                      JsNull, JsUndefined, Str(<< >>), Num(0), Num(24) },
     stability |-> { Num(SCALE \div 10), Num(SCALE \div 20), Num(Infinity), NaN,
                     Str(<< "5", ".", "8" >>), Str(<< "5", ".", "8", "a" >>),
                     Str(<< "a" >>), JsNull, Bool(TRUE) },
     difficulty |-> { Num(SCALE), Num(10 * SCALE), Num(SCALE \div 2), Num(11 * SCALE),
                      Str(<< "3", ".", "9", "9" >>), Str(<< " ", "1", "0" >>) },
     elapsedDays |-> { Num(0), Num(-SCALE), Num(3 * SCALE), Str(<< "-", "1" >>) },
     scheduledDays |-> { Num(0), Num(3 * SCALE), Num(-SCALE), Str(<< "2" >>), JsNull,
                         JsUndefined },
     reps |-> { Num(0), Num(SCALE), Num(2 * SCALE), Num((3 * SCALE) \div 2), Num(-SCALE),
                Num(Infinity), Str(<< "1" >>), Str(<< "1", ".", "5" >>) },
     lapses |-> { Num(0), Num(SCALE), Num(3 * SCALE), Num(SCALE \div 2),
                  Str(<< "0" >>) },
     state |-> { Str(<< "N", "E", "W" >>), Str(<< "L", "e", "a", "r", "n", "i", "n", "g" >>),
                 Str(<< "r", "e", "v", "i", "e", "w" >>),
                 Str(<< "R", "E", "L", "E", "A", "R", "N", "I", "N", "G" >>),
                 Str(<< "I", "N", "V", "A", "L", "I", "D" >>), Str(<< >>),
                 Num(123 * SCALE), JsNull }]

\* record without its field named field
Without(record, field) == [f \in DOMAIN record \ {field} |-> record[f]]

\* record with value in its field named field
With(record, field, value) ==
    [f \in DOMAIN record \cup {field} |-> IF f = field THEN value ELSE record[f]]

\* the caller changes at most MaxChanged fields of a raw card it got
MaxChanged == 2

\* what the caller gets from storage or elsewhere: one of the two raw
\* cards, or a value that is no card at all
ReceivedInputs ==
    { Object(ReviewedRawCard), Object(NewRawCard),
      JsNull, JsUndefined, Str(<< "s" >>), Num(0), EmptyArray }

\* the caller gets a raw record
Receive ==
    /\ rawData = NoRawData
    /\ \E raw \in ReceivedInputs :
          rawData' = [given |-> TRUE, value |-> raw, changed |-> 0]
    /\ UNCHANGED << parameters, card, result, session, supplied, copy,
                    retrieved, heap, converted >>

\* the caller deletes a field of the record it holds, or gives it a value
Change ==
    /\ rawData # NoRawData
    /\ converted = NotConverted
    /\ rawData.changed < MaxChanged
    /\ TypeOf(rawData.value) = "object" /\ rawData.value # JsNull
    /\ \E field \in DOMAIN FieldValues :
          \E fields \in { Without(rawData.value.fields, field) }
                         \cup { With(rawData.value.fields, field, v) :
                                    v \in FieldValues[field] } :
              rawData' = [rawData EXCEPT !.value.fields = fields,
                                         !.changed = @ + 1]
    /\ UNCHANGED << parameters, card, result, session, supplied, copy,
                    retrieved, heap, converted >>

\* converted = CardValidator.validateAndConvert(rawData), in a try block
Validate ==
    /\ rawData # NoRawData
    /\ converted = NotConverted
    /\ converted' = validateAndConvert(rawData.value)
    /\ UNCHANGED << parameters, card, result, session, supplied, copy,
                    retrieved, heap, rawData >>

ValidatorNext ==
    \/ Receive
    \/ Change
    \/ Validate

\* the validator under the raw inputs of the model
SpecValidator == Init /\ [][ValidatorNext]_vars

\* ------------------------------------------------------------------------
\* The card validator: validateAndConvertBatch
\* ------------------------------------------------------------------------

\* a batch of the model has at most MaxBatch records
MaxBatch == 3

\* the callback of the forEach for the record rawData at index: the card
\* goes to valid, or an entry with the index, the message of the error
\* caught and the record itself goes to errors
batchCallback(rawData_, index, out) ==
    CHOOSE next \in
        { IF outcome.status = "returned"
          THEN [out EXCEPT !.valid = Append(@, outcome.card)]
          ELSE [out EXCEPT !.errors = Append(@, [index |-> index,
                                                 error |-> outcome.error,
                                                 data |-> rawData_])] :
            outcome \in { validateAndConvert(rawData_) } } : TRUE

\* rawDataArray.forEach((rawData, index) => ...) from index on: out holds
\* valid and errors as the callbacks before index left them
RECURSIVE batchForEach(_, _, _)
batchForEach(rawDataArray, index, out) ==
    IF index >= Len(rawDataArray) THEN out
    ELSE CHOOSE done \in
            { batchForEach(rawDataArray, index + 1, next) :
                next \in { batchCallback(rawDataArray[index + 1], index, out) } } : TRUE

\* validateAndConvertBatch giving up at the first record that fails
validateAndConvertBatch_StopAtError(rawDataArray) ==
    LET failing == { i \in DOMAIN rawDataArray :
                        validateAndConvert(rawDataArray[i]).status = "thrown" }
        last == IF failing = {} THEN Len(rawDataArray)
                ELSE CHOOSE i \in failing : \A j \in failing : i <= j
    IN  batchForEach(SubSeq(rawDataArray, 1, last), 0,
                     [valid |-> << >>, errors |-> << >>])

validateAndConvertBatch(rawDataArray) ==
    batchForEach(rawDataArray, 0, [valid |-> << >>, errors |-> << >>])

\* the records of a batch: the two raw cards, records with one field or
\* one cross-field rule out of order, and a value that is no record
BatchRecords ==
    { Object(ReviewedRawCard),
      Object(NewRawCard),
      Object(With(ReviewedRawCard, "due", InvalidDateString)),
      Object(With(ReviewedRawCard, "stability", Str(<< "a" >>))),
      Object(With(NewRawCard, "reps", Num(SCALE))),
      JsNull }

\* the caller gets an array of raw records
ReceiveBatch ==
    /\ rawData = NoRawData
    /\ \E n \in 0 .. MaxBatch :
          \E rawDataArray \in [1 .. n -> BatchRecords] :
              rawData' = [given |-> TRUE, value |-> rawDataArray]
    /\ UNCHANGED << parameters, card, result, session, supplied, copy,
                    retrieved, heap, converted >>

\* converted = CardValidator.validateAndConvertBatch(rawData)
ValidateBatch ==
    /\ rawData # NoRawData
    /\ converted = NotConverted
    /\ converted' = [status |-> "batch",
                     result |-> validateAndConvertBatch(rawData.value)]
    /\ UNCHANGED << parameters, card, result, session, supplied, copy,
                    retrieved, heap, rawData >>

BatchNext ==
    \/ ReceiveBatch
    \/ ValidateBatch

\* the batch validator under the batches of the model
SpecBatch == Init /\ [][BatchNext]_vars

\* ------------------------------------------------------------------------
\* The card validator: isCardDataShape
\* ------------------------------------------------------------------------

\* a && b: a when a is falsy, b otherwise
JsAnd(a, b) == IF Truthy(a) THEN b ELSE a

\* isCardDataShape(obj): the value returned
isCardDataShape(obj) ==
    LET in(field) == Bool("fields" \in DOMAIN obj /\ field \in DOMAIN obj.fields)
    IN  IF obj = JsNull \/ obj = JsUndefined THEN Bool(FALSE)
        ELSE JsAnd(obj,
             JsAnd(Bool(TypeOf(obj) = "object"),
             JsAnd(in("due"),
             JsAnd(in("stability"),
             JsAnd(in("difficulty"),
             JsAnd(in("state"),
             JsAnd(in("reps"), in("lapses"))))))))

\* converted = CardValidator.isCardDataShape(rawData), in a try block
CheckShape ==
    /\ rawData # NoRawData
    /\ converted = NotConverted
    /\ converted' = [status |-> "shape", value |-> isCardDataShape(rawData.value)]
    /\ UNCHANGED << parameters, card, result, session, supplied, copy,
                    retrieved, heap, rawData >>

ShapeNext ==
    \/ Receive
    \/ Change
    \/ CheckShape

\* the shape check under the raw inputs of the model
SpecShape == Init /\ [][ShapeNext]_vars

\* ------------------------------------------------------------------------
\* calcElapsedDays called by itself
\* ------------------------------------------------------------------------

\* isValidDate(date)
isValidDate(date) == IsDate(date) /\ ~date.time.nan

\* calcElapsedDays for a lastReviewDate that is a Date, valid or not, null
\* or undefined: new Date(lastReviewDate) has the time value of
\* lastReviewDate; for an Invalid Date the function warns and returns 0
calcElapsedDaysOf(lastReviewDate, now) ==
    IF Truthy(lastReviewDate) /\ isValidDate(DateObject(lastReviewDate.time))
    THEN calcElapsedDays(Some(lastReviewDate.time.v), now)
    ELSE 0

\* a caller that holds no card calls calcElapsedDays(lastReviewDate, now)
CalcElapsedDays ==
    /\ card = NullCard
    /\ converted = NotConverted
    /\ \E now \in QueryTimes :
          \E lastReviewDate \in
                {JsNull, JsUndefined, DateObject(NaN)}
                \cup { DateObject(Num(t)) : t \in QueryTimes } :
              converted' = [status |-> "elapsed",
                            lastReviewDate |-> lastReviewDate,
                            now |-> now,
                            value |-> calcElapsedDaysOf(lastReviewDate, now)]
    /\ UNCHANGED << parameters, card, result, session, supplied, copy,
                    retrieved, heap, rawData >>

ElapsedNext ==
    \/ CalcElapsedDays
    \/ (converted = NotConverted /\ CreateEmptyCard)
    \/ (converted = NotConverted /\ LoadCard)
    \/ (converted = NotConverted /\ Schedule)
    \/ (converted = NotConverted /\ Pick)

\* calcElapsedDays called by itself, and by the engine under the default
\* parameters
SpecElapsed == Init /\ [][ElapsedNext]_vars

\* ------------------------------------------------------------------------
\* Cards of the engine written out and read back
\* ------------------------------------------------------------------------

\* date.toISOString() for the Date of an instant: the string new Date
\* reads back as that instant
RECURSIVE toISOString(_)
toISOString(instant) ==
    IF instant < 10 THEN << Digits[instant + 1] >>
    ELSE Append(toISOString(instant \div 10), Digits[(instant % 10) + 1])

\* the raw record a caller stores for a card: the state as its upper-case
\* name, the dates as ISO strings, the numbers as they are, no lastReview
\* for a card that has none
toRaw(c) ==
    LET fields ==
            [due |-> Str(toISOString(c.due)),
             stability |-> Num(c.stability),
             difficulty |-> Num(c.difficulty),
             elapsedDays |-> Num(c.elapsedDays * SCALE),
             scheduledDays |-> Num(c.scheduledDays * SCALE),
             reps |-> Num(c.reps * SCALE),
             lapses |-> Num(c.lapses * SCALE),
             state |-> Str(CHOOSE name \in DOMAIN STATE_MAP : STATE_MAP[name] = c.state)]
    IN  Object(IF c.lastReview = Undefined THEN fields
               ELSE With(fields, "lastReview", Str(toISOString(c.lastReview[1]))))

\* the caller writes out the card it holds, or one of the candidates the
\* engine has returned for it
WriteOut ==
    /\ rawData = NoRawData
    /\ card # NullCard
    /\ \E from \in {"card"} \cup (IF result.status = "returned" THEN RatingKeys ELSE {}) :
          rawData' = [given |-> TRUE,
                      from |-> from,
                      card |-> IF from = "card" THEN card ELSE result.cards[from].card,
                      value |-> toRaw(IF from = "card" THEN card
                                      ELSE result.cards[from].card)]
    /\ UNCHANGED << parameters, card, result, session, supplied, copy,
                    retrieved, heap, converted >>

RoundTripNext ==
    \/ (rawData = NoRawData /\ CreateEmptyCard)
    \/ (rawData = NoRawData /\ LoadCard)
    \/ (rawData = NoRawData /\ session.applied = 0 /\ Schedule)
    \/ WriteOut
    \/ Validate

\* a first review under the default parameters, with a caller that writes
\* out a card and has the validator read it back
SpecRoundTrip == Init /\ [][RoundTripNext]_vars

\* ------------------------------------------------------------------------
\* updateParameters between schedule calls and their use
\* ------------------------------------------------------------------------

\* updateParameters that computes the candidates the caller holds anew
UpdateHeld_Reschedule ==
    \E newParameters \in ParameterArgs :
        /\ result.status = "returned"
        /\ parameters' = updateParameters(newParameters)
        /\ card' = card
        /\ \E now \in {result.now} :
              result' = [result EXCEPT !.cards = buildSchedulingCards(card, now)']
        /\ supplied' = Spread(supplied, newParameters)
        /\ UNCHANGED << session, restVars >>

\* fsrs.updateParameters(newParameters) while the caller holds the
\* candidates of its latest schedule call
UpdateHeld ==
    \E newParameters \in ParameterArgs :
        /\ result.status = "returned"
        /\ parameters' = updateParameters(newParameters)
        /\ supplied' = Spread(supplied, newParameters)
        /\ UNCHANGED << card, result, session, restVars >>

InterleavedNext ==
    \/ CreateEmptyCard
    \/ LoadCard
    \/ Schedule
    \/ Discard
    \/ UpdateParameters
    \/ UpdateHeld

\* schedule calls with updateParameters calls before, between and after
SpecInterleaved == Init /\ [][InterleavedNext]_vars

\* ------------------------------------------------------------------------
\* The review loop under Parameters set once
\* ------------------------------------------------------------------------

LoopNext ==
    \/ (card = NullCard /\ result = NoResult /\ UpdateParameters)
    \/ CreateEmptyCard
    \/ LoadCard
    \/ Schedule
    \/ Pick

\* the engine with a caller that sets the Parameters before it takes up
\* its card
SpecLoop == Init /\ [][LoopNext]_vars

\* ------------------------------------------------------------------------
\* Properties
\* ------------------------------------------------------------------------

\* the latest schedule call returned its four candidates for card
Returned == result.status = "returned"

\* the candidate card of entry key
Cand(key) == result.cards[key].card

PassKeys == {"hard", "good", "easy"}

\* a card the validation layer lets through: New, or reviewed with
\* stability >= 0.1 and difficulty in [1, 10]
ValidCard(c) ==
    \/ c.state = New
    \/ /\ c.stability >= SCALE \div 10
       /\ c.difficulty >= SCALE
       /\ c.difficulty <= 10 * SCALE

\* C1: for every New card, schedule yields state Learning for the again
\* candidate and state Review for the hard, good and easy candidates.
C1_NewCardTable ==
    (Returned /\ card.state = New) =>
        /\ Cand("again").state = Learning
        /\ \A k \in PassKeys : Cand(k).state = Review

\* C2: for every card in state Learning, Review or Relearning, whatever its
\* numeric fields, schedule yields state Relearning for the again candidate
\* and state Review for the hard, good and easy candidates.
C2_ReviewedCardTable ==
    (Returned /\ card.state \in {Learning, Review, Relearning}) =>
        /\ Cand("again").state = Relearning
        /\ \A k \in PassKeys : Cand(k).state = Review

C2_Witness ==
    /\ Returned
    /\ card.state = Learning
    /\ card.difficulty = 0
    /\ Cand("hard").state = Review

C5_LapsesOnlyOnReviewedAgain ==
    Returned =>
        \A k \in RatingKeys :
            Cand(k).lapses =
                IF k = "again" /\ card.state # New
                THEN card.lapses + 1 ELSE card.lapses

\* the invariants of a Card
CardInvariant(c) ==
    /\ 0 <= c.lapses
    /\ c.lapses <= c.reps
    /\ c.reps > 0 => c.lastReview # Undefined
    /\ c.state = New <=> (c.reps = 0 /\ c.lastReview = Undefined)

\* C6: starting from createEmptyCard and replacing the card again and again
\* by one of its four candidates, every card reached, the empty card
\* included, has 0 <= lapses <= reps, a lastReview if reps > 0, and state
\* New exactly if reps = 0 and lastReview is absent.
C6_EmptyCardLoopInvariant ==
    session.origin = "empty" =>
        /\ CardInvariant(card)
        /\ Returned => \A k \in RatingKeys : CardInvariant(Cand(k))

C6_Witness ==
    /\ session.origin = "empty"
    /\ session.applied = 2
    /\ card.lapses = 2
    /\ Returned
    /\ Cand("again").lapses = 3

\* a requestRetention strictly between 0 and 1
RetentionInRange == parameters.requestRetention > 0 /\ parameters.requestRetention < SCALE

\* C7 as claimed: for any card with positive stability, any requestRetention
\* in (0,1) and any configured maximumInterval, every candidate has
\* 1 <= scheduledDays <= maximumInterval.
C7_IntervalInRange_AnyMaximum ==
    (Returned /\ RetentionInRange /\ (card.state = New \/ card.stability > 0)) =>
        \A k \in RatingKeys :
            /\ 1 <= Cand(k).scheduledDays
            /\ Cand(k).scheduledDays <= parameters.maximumInterval

\* C7: for any card with positive stability, any requestRetention in (0,1)
\* and any whole maximumInterval >= 1, every candidate has a whole
\* scheduledDays with 1 <= scheduledDays <= maximumInterval.
C7_IntervalInRange ==
    (/\ Returned
     /\ RetentionInRange
     /\ parameters.maximumInterval >= 1
     /\ (card.state = New \/ card.stability > 0)) =>
        \A k \in RatingKeys :
            /\ Cand(k).scheduledDays \in Int
            /\ 1 <= Cand(k).scheduledDays
            /\ Cand(k).scheduledDays <= parameters.maximumInterval

C7_Witness ==
    /\ Returned
    /\ parameters.maximumInterval = 2
    /\ parameters.requestRetention = 7000
    /\ card.stability = 5 * SCALE
    /\ Cand("easy").scheduledDays = 2
    /\ Cand("hard").scheduledDays = 2

\* C8: for every rating and every valid input card (New, or reviewed with
\* difficulty in [1,10]) the candidate's difficulty lies in [1,10]; so once
\* a candidate has been applied, the card's difficulty stays in [1,10]
\* through every further review.
C8_DifficultyInRange ==
    /\ (Returned /\ (card.state = New \/ (card.difficulty >= SCALE /\ card.difficulty <= 10 * SCALE))) =>
        \A k \in RatingKeys :
            /\ Cand(k).difficulty >= SCALE
            /\ Cand(k).difficulty <= 10 * SCALE
    /\ session.applied > 0 =>
        /\ card.difficulty >= SCALE
        /\ card.difficulty <= 10 * SCALE

C8_Witness ==
    /\ Returned
    /\ card.state = Review
    /\ card.difficulty = 10 * SCALE
    /\ Cand("again").difficulty = 10 * SCALE
    /\ Cand("easy").difficulty < 10 * SCALE

\* C9: for every valid input card the hard, good and easy candidates have
\* stability >= 0.1 and the again candidate has stability > 0 (>= 0.1 when
\* the input card is New).
C9_StabilityFloor ==
    (Returned /\ ValidCard(card)) =>
        /\ \A k \in PassKeys : Cand(k).stability >= SCALE \div 10
        /\ Cand("again").stability > 0
        /\ card.state = New => Cand("again").stability >= SCALE \div 10

\* C10: schedule throws exactly when the card is null or undefined, or when
\* card.lastReview is present and now is strictly earlier; a throwing call
\* returns no cards and changes neither the card nor the Parameters; a now
\* equal to card.lastReview is accepted.
C10_ScheduleErrors ==
    [][(result' # result /\ result'.status # "none") =>
        /\ result'.status = "thrown" <=>
              IF card = NullCard THEN TRUE
              ELSE card.lastReview # Undefined /\ result'.now < card.lastReview[1]
        /\ result'.status = "thrown" =>
              /\ DOMAIN result' = {"status", "now", "error"}
              /\ card' = card
              /\ parameters' = parameters]_vars

C10_Witness ==
    /\ result.status = "thrown"
    /\ card # NullCard
    /\ card.lastReview = Some(12)
    /\ result.now = 0
    /\ result.error = "Current time cannot be before the last review"

\* the rating each key of SchedulingCards is named after
RatingNamed == [again |-> Again, hard |-> Hard, good |-> Good, easy |-> Easy]

\* C11: schedule leaves every field of its input card, now and Parameters
\* unchanged; each of the four candidates is a fresh value, so that a write
\* to one candidate alters neither the input card nor the other candidates.
C11_ScheduleFrame ==
    [][ /\ ScheduleObjects
            => /\ Deref(heap', CardRef) = Deref(heap, CardRef)
               /\ heap'[NowRef] = heap[NowRef]
               /\ parameters' = parameters
        /\ \A key \in RatingKeys :
              (SetCandidateField(key) \/ SetCandidateDate(key))
                  => /\ Deref(heap', CardRef) = Deref(heap, CardRef)
                     /\ heap'[NowRef] = heap[NowRef]
                     /\ \A other \in RatingKeys \ {key} :
                           CandidateAt(heap', other) = CandidateAt(heap, other)
      ]_vars

\* schedule has returned for a reviewed card, and the caller has written to
\* a field and to a Date of one of the candidates
C11_Witness ==
    /\ heap # NoHeap
    /\ result.status = "returned"
    /\ card.state = Review
    /\ Deref(heap, CardRef) = card
    /\ CandidateAt(heap, "good").reps = 0
    /\ CandidateAt(heap, "good").due = 1000 * DayLength
    /\ CandidateAt(heap, "good").lastReview = Some(1000 * DayLength)
    /\ CandidateAt(heap, "hard") = result.cards["hard"].card

\* C13: schedule returns exactly the four entries again, hard, good and
\* easy; the reviewLog of entry k has the rating named k, review = now, the
\* input card's state, due, stability, difficulty and scheduledDays, and the
\* input card's elapsedDays as lastElapsedDays; the four logs differ only in
\* rating.
C13_ReviewLogs ==
    Returned =>
        /\ DOMAIN result.cards = {"again", "hard", "good", "easy"}
        /\ \A key \in DOMAIN result.cards :
              LET log == result.cards[key].reviewLog
              IN  /\ log.rating = RatingNamed[key]
                  /\ log.review = result.now
                  /\ log.state = card.state
                  /\ log.due = card.due
                  /\ log.stability = card.stability
                  /\ log.difficulty = card.difficulty
                  /\ log.scheduledDays = card.scheduledDays
                  /\ log.lastElapsedDays = card.elapsedDays
        /\ \A k1, k2 \in DOMAIN result.cards :
              [result.cards[k1].reviewLog EXCEPT !.rating = Again]
                  = [result.cards[k2].reviewLog EXCEPT !.rating = Again]

\* a reviewed card whose stored elapsedDays differs from the days elapsed at
\* this review, and whose stored due and scheduledDays differ from the
\* candidates'
C13_Witness ==
    /\ Returned
    /\ card.state = Review
    /\ card.elapsedDays = 1
    /\ result.cards["good"].reviewLog.elapsedDays = 0
    /\ result.cards["good"].reviewLog.lastElapsedDays = 1
    /\ Cand("good").scheduledDays # card.scheduledDays
    /\ Cand("good").due # card.due

\* C14: for a New card the again candidate has scheduledDays = 1 for every
\* Parameters setting (any requestRetention in (0,1), any maximumInterval
\* >= 1).
C14_NewAgainOneDay ==
    ( /\ Returned
      /\ card.state = New
      /\ RetentionInRange
      /\ parameters.maximumInterval >= 1 )
    => Cand("again").scheduledDays = 1

\* C15: for every candidate, due equals now plus scheduledDays whole days.
C15_DueIsNowPlusDays ==
    Returned =>
        \A key \in RatingKeys :
            Cand(key).due = result.now + Cand(key).scheduledDays * DayLength

\* C16: getRetrievability returns undefined exactly when card.state is New
\* or lastReview is absent; for every other card with positive stability it
\* returns a number in (0, 1].
C16_RetrievabilityDefined ==
    \A t \in DOMAIN retrieved :
        /\ retrieved[t] = Undefined
              <=> (card.state = New \/ card.lastReview = Undefined)
        /\ (retrieved[t] # Undefined /\ card.stability > 0)
              => (retrieved[t][1] > 0 /\ retrieved[t][1] <= SCALE)

\* a reviewed card gave a number below 1, at another instant 1
C16_Witness ==
    /\ card # NullCard
    /\ card.state = Review
    /\ card.stability > 0
    /\ \E t1, t2 \in DOMAIN retrieved :
          /\ retrieved[t1] = Some(SCALE)
          /\ retrieved[t2] # Undefined
          /\ retrieved[t2][1] < SCALE

\* C17: for a fixed reviewed card getRetrievability is monotonically
\* non-increasing as now advances, and equals 1 when now is less than one
\* whole day after lastReview.
C17_RetrievabilityDecays ==
    \A t1, t2 \in DOMAIN retrieved :
        retrieved[t1] # Undefined =>
            /\ t1 <= t2 => retrieved[t1][1] >= retrieved[t2][1]
            /\ t1 < card.lastReview[1] + DayLength => retrieved[t1] = Some(SCALE)

\* three answers for one card: 1 within the first day, less later, less
\* again later still
C17_Witness ==
    \E t1, t2, t3 \in DOMAIN retrieved :
        /\ retrieved[t1] # Undefined
        /\ t1 > card.lastReview[1]
        /\ t1 < t2 /\ t2 < t3
        /\ retrieved[t1][1] = SCALE
        /\ retrieved[t2][1] < SCALE
        /\ retrieved[t3][1] < retrieved[t2][1]

\* C18: getParameters returns a defensive copy: a write to requestRetention,
\* maximumInterval or an element of w of the returned value changes neither
\* what a later getParameters returns nor what a later schedule returns.
C18_CopyIsDefensive ==
    [][ (SetCopyField \/ SetCopyWeight)
        => /\ getParameters' = getParameters
           /\ schedule(card, 0)' = schedule(card, 0) ]_vars

\* C19: updateParameters(p) replaces exactly the fields present in p and
\* keeps the others, as the constructor does over the defaults; after any
\* sequence of updates getParameters reports, per field, the value supplied
\* last or else the default, and every later schedule call uses those
\* values.
C19_ParametersMerge ==
    /\ DOMAIN getParameters = DOMAIN DefaultParameters
    /\ \A f \in DOMAIN DefaultParameters : getParameters[f] = supplied[f]
    /\ Returned =>
          \A key \in RatingKeys :
              LET stability == Max(supplied.w[RatingNamed[key]], SCALE \div 10)
                  interval == Mul(stability * 9,
                                  Div(SCALE, supplied.requestRetention) - SCALE)
              IN  /\ Cand(key).stability = stability
                  /\ Cand(key).scheduledDays =
                        Min(Max(Round(interval), 1), supplied.maximumInterval)

\* the three fields come from three different calls, and schedule has run
C19_Witness ==
    /\ Returned
    /\ supplied.requestRetention = 7000
    /\ supplied.maximumInterval = 2
    /\ supplied.w # DefaultParameters.w
    /\ Cand("again").stability = SCALE
    /\ Cand("easy").scheduledDays = 2

\* what the validator was given, and what it makes of single values
Raw == rawData.value

IsRecord(raw) == Truthy(raw) /\ TypeOf(raw) = "object"

\* the number a value is or, being a string, parses to
NumberOf(value) ==
    IF value.t = "number" THEN value
    ELSE IF value.t = "string" THEN parseFloat(value.s)
    ELSE NaN

\* the instant a value is or, being a string, parses to
InstantOf(value) ==
    IF IsDate(value) THEN value.time
    ELSE IF value.t = "string" THEN NewDate(value.s).time
    ELSE NaN

InRange(value, min, max) ==
    ~NumberOf(value).nan /\ NumberOf(value).v >= min /\ NumberOf(value).v <= max

IsStateName(value) ==
    value.t = "string" /\ toUpperCase(value.s) \in DOMAIN STATE_MAP

\* the condition the claim puts on one field; present says whether a
\* lastReview counts as present
FieldOk(raw, field, present) ==
    CASE field = "state" -> IsStateName(Get(raw, field))
      [] field = "due" -> ~InstantOf(Get(raw, field)).nan
      [] field = "lastReview" -> present => ~InstantOf(Get(raw, field)).nan
      [] field = "stability" -> InRange(Get(raw, field), SCALE \div 10, Infinity)
      [] field = "difficulty" -> InRange(Get(raw, field), SCALE, 10 * SCALE)
      [] field = "elapsedDays" -> InRange(Get(raw, field), 0, Infinity)
      [] field = "scheduledDays" ->
            Get(raw, field) # JsUndefined => InRange(Get(raw, field), 0, Infinity)
      [] field \in {"reps", "lapses"} ->
            /\ InRange(Get(raw, field), 0, Infinity)
            /\ IsInteger(NumberOf(Get(raw, field)))

FieldNames ==
    {"state", "due", "lastReview", "stability", "difficulty", "elapsedDays",
     "scheduledDays", "reps", "lapses"}

FieldsOk(raw, present) == \A field \in FieldNames : FieldOk(raw, field, present)

\* the four cross-field rules, for a record whose fields are in order
CrossFieldRulesHold(raw, present) ==
    LET isNew == STATE_MAP[toUpperCase(Get(raw, "state").s)] = New
        reps == NumberOf(Get(raw, "reps")).v
        lapses == NumberOf(Get(raw, "lapses")).v
    IN  /\ ~(isNew /\ reps > 0)
        /\ ~(isNew /\ present)
        /\ ~(reps > 0 /\ ~present)
        /\ ~(lapses > reps)

Acceptable(raw, present) ==
    IsRecord(raw) /\ FieldsOk(raw, present) /\ CrossFieldRulesHold(raw, present)

\* the fields an error message names: the field its template is filled
\* with, or the fields its text spells out
NamedFields(error) ==
    IF "fieldName" \in DOMAIN error THEN {error.fieldName}
    ELSE CASE error.template \in
                {"Invalid state: must be a string, got ${typeof state}",
                 "Invalid state: \"${state}\". Must be one of: ${validStates}"}
                -> {"state"}
           [] error.template = "New cards should have 0 reps" -> {"reps"}
           [] error.template = "New cards should not have a lastReview date"
                -> {"lastReview"}
           [] error.template = "Cards with reps > 0 must have a lastReview date"
                -> {"reps", "lastReview"}
           [] error.template = "Lapses cannot be greater than reps"
                -> {"lapses", "reps"}
           [] OTHER -> {}

\* a value of a type the check of the field goes on to read
TypeAccepted(field, value) ==
    CASE field = "state" -> value.t = "string"
      [] field \in {"due", "lastReview"} ->
            Truthy(value) /\ (IsDate(value) \/ value.t = "string")
      [] OTHER -> value.t \in {"number", "string"}

CrossFieldRules ==
    << "New cards should have 0 reps",
       "New cards should not have a lastReview date",
       "Cards with reps > 0 must have a lastReview date",
       "Lapses cannot be greater than reps" >>

\* a record whose fields are in order violates the k-th cross-field rule,
\* read on the values its fields parse to
RuleViolated(raw, k) ==
    LET isNew == STATE_MAP[toUpperCase(Get(raw, "state").s)] = New
        reps == NumberOf(Get(raw, "reps")).v
        lapses == NumberOf(Get(raw, "lapses")).v
        present == Truthy(Get(raw, "lastReview"))
    IN  CASE k = 1 -> isNew /\ reps > 0
          [] k = 2 -> isNew /\ present
          [] k = 3 -> reps > 0 /\ ~present
          [] k = 4 -> lapses > reps

\* C21: when validateAndConvert throws for a record, the error is a
\* field-level error whenever some field-level condition fails, whatever
\* cross-field rules the record violates as well; otherwise it is the error
\* of the first violated cross-field rule in the order (a) New card with
\* reps > 0, (b) New card carrying a lastReview, (c) reps > 0 without
\* lastReview, (d) lapses > reps.
C21_CrossFieldOrder ==
    (converted.status = "thrown" /\ IsRecord(Raw)) =>
        IF ~FieldsOk(Raw, Truthy(Get(Raw, "lastReview")))
        THEN \A k \in DOMAIN CrossFieldRules :
                converted.error.template # CrossFieldRules[k]
        ELSE \E k \in DOMAIN CrossFieldRules :
                /\ RuleViolated(Raw, k)
                /\ \A j \in 1 .. k - 1 : ~RuleViolated(Raw, j)
                /\ converted.error.template = CrossFieldRules[k]

\* a New record with reps 1, lapses 3 and no lastReview violates rules (a),
\* (c) and (d), and the error is the one of rule (a)
C21_Witness ==
    /\ converted.status = "thrown"
    /\ IsRecord(Raw)
    /\ FieldsOk(Raw, Truthy(Get(Raw, "lastReview")))
    /\ RuleViolated(Raw, 1) /\ RuleViolated(Raw, 3) /\ RuleViolated(Raw, 4)
    /\ ~RuleViolated(Raw, 2)
    /\ converted.error.template = CrossFieldRules[1]

\* C22: every Card returned by validateAndConvert satisfies the Card
\* invariants: 1 <= difficulty <= 10, 0 <= lapses <= reps, a lastReview if
\* reps > 0, and state New exactly if reps = 0 and lastReview is absent.
C22_ValidatedCardInvariants ==
    converted.status = "returned" =>
        /\ SCALE <= converted.card.difficulty
        /\ converted.card.difficulty <= 10 * SCALE
        /\ CardInvariant(converted.card)

\* the records of the batch that validateAndConvert accepts, and their
\* indices in the batch, counted from 0, in ascending order
AcceptedRecord(raw) == Acceptable(raw, IsRecord(raw) /\ Truthy(Get(raw, "lastReview")))

RECURSIVE IndicesWhere(_, _)
IndicesWhere(records, malformed) ==
    IF records = << >> THEN << >>
    ELSE LET rest == IndicesWhere(SubSeq(records, 1, Len(records) - 1), malformed)
         IN  IF AcceptedRecord(records[Len(records)]) # malformed
             THEN Append(rest, Len(records) - 1)
             ELSE rest

\* C23: validateAndConvertBatch on n records returns valid and errors with
\* valid.length + errors.length = n; the error entries are those of the
\* malformed records, one each, in ascending index order, each with the
\* index of its record, the message validateAndConvert gives for it and the
\* record itself; the valid cards are those of the other records in the
\* order of the records; a batch without malformed record has no entry.
C23_BatchContract ==
    converted # NotConverted =>
        LET records == rawData.value
            valid == converted.result.valid
            errors == converted.result.errors
            good == IndicesWhere(records, FALSE)
            bad == IndicesWhere(records, TRUE)
        IN  /\ converted.status = "batch"
            /\ Len(valid) + Len(errors) = Len(records)
            /\ Len(errors) = Len(bad)
            /\ \A k \in DOMAIN errors :
                  /\ errors[k].index = bad[k]
                  /\ errors[k].data = records[bad[k] + 1]
                  /\ errors[k].error = validateAndConvert(records[bad[k] + 1]).error
            /\ \A k \in DOMAIN errors : \A l \in DOMAIN errors :
                  k < l => errors[k].index < errors[l].index
            /\ Len(valid) = Len(good)
            /\ \A k \in DOMAIN valid :
                  valid[k] = validateAndConvert(records[good[k] + 1]).card
            /\ (\A i \in DOMAIN records : AcceptedRecord(records[i])) => errors = << >>

\* a batch of three with a malformed record first and last: two entries,
\* of index 0 and 2, and the card of the record between them
C23_Witness ==
    /\ converted.status = "batch"
    /\ Len(rawData.value) = 3
    /\ rawData.value[1] = JsNull
    /\ rawData.value[2] = Object(NewRawCard)
    /\ rawData.value[3] = Object(With(ReviewedRawCard, "due", InvalidDateString))
    /\ Len(converted.result.valid) = 1
    /\ converted.result.valid[1].state = New
    /\ Len(converted.result.errors) = 2
    /\ converted.result.errors[1].index = 0
    /\ converted.result.errors[2].index = 2
    /\ converted.result.errors[2].error.fieldName = "due"

\* the six field names isCardDataShape looks for
ShapeFields == {"due", "stability", "difficulty", "state", "reps", "lapses"}

\* an object that has the six fields, whatever their values
HasCardShape(raw) ==
    /\ raw.t = "object"
    /\ "fields" \in DOMAIN raw
    /\ ShapeFields \subseteq DOMAIN raw.fields

\* C24: isCardDataShape returns, without throwing, exactly true or exactly
\* false for every input, and true if and only if the input is an object
\* that has the six fields due, stability, difficulty, state, reps, lapses.
C24_ShapeIsBoolean ==
    converted # NotConverted =>
        /\ converted.status = "shape"
        /\ converted.value \in {Bool(TRUE), Bool(FALSE)}
        /\ converted.value = Bool(TRUE) <=> HasCardShape(Raw)

\* the number of whole days of DayLength hours from instant from to
\* instant to, 0 when to is not later
WholeDays(from, to) ==
    IF to <= from THEN 0
    ELSE CHOOSE n \in 0 .. (to - from) :
            n * DayLength <= to - from /\ to - from < (n + 1) * DayLength

\* C25: calcElapsedDays(lastReview, now) is the number of whole 24-hour
\* days from lastReview to now, never negative: 0 when lastReview is later
\* than now, and 0 when lastReview is null, undefined or an invalid date.
\* The elapsedDays of every candidate of a non-New card is this number for
\* the card's lastReview and the now of the call, and 0 for a New card.
C25_ElapsedDays ==
    /\ converted.status = "elapsed" =>
          /\ converted.value >= 0
          /\ converted.value =
                IF \/ converted.lastReviewDate \in {JsNull, JsUndefined}
                   \/ converted.lastReviewDate.time.nan
                THEN 0
                ELSE WholeDays(converted.lastReviewDate.time.v, converted.now)
    /\ Returned =>
          \A k \in RatingKeys :
              Cand(k).elapsedDays =
                 IF card.state = New \/ card.lastReview = Undefined THEN 0
                 ELSE WholeDays(card.lastReview[1], result.now)

\* four and a half days have passed: the call returns 4
C25_Witness ==
    /\ converted.status = "elapsed"
    /\ converted.lastReviewDate = DateObject(Num(0))
    /\ converted.now = 108
    /\ converted.value = 4

\* C26: for a reviewed card rated Hard, Good or Easy the Hard penalty and
\* the Easy bonus scale only the growth term of the new stability: with
\* zero elapsed days (retrievability 1) the stability is left unchanged by
\* all three ratings, and under the positive weights of the model the new
\* stability is never below the old one.
C26_PenaltyScalesGrowthOnly ==
    (Returned /\ card.state # New) =>
        \A k \in PassKeys :
            /\ Cand(k).stability >= card.stability
            /\ Cand(k).elapsedDays = 0 => Cand(k).stability = card.stability

\* C27: a card that has left state New never is New again, and no review
\* of a card in state Learning, Review or Relearning leads to Learning or
\* to New: Learning is entered from New only.
C27_NoWayBack ==
    [][/\ (card # NullCard /\ card.state # New) => card'.state # New
       /\ Pick => /\ card'.state # New
                  /\ card.state # New => card'.state # Learning]_vars

\* an empty card reviewed twice without a lapse has gone from New to
\* Learning and from Learning to Review
C27_Witness ==
    /\ session.origin = "empty"
    /\ session.applied = 2
    /\ card.lapses = 0
    /\ card.state = Review

\* a card the validator accepts when written out
Validated(c) == validateAndConvert(toRaw(c)).status = "returned"

\* C28: the card of createEmptyCard, and every candidate of schedule
\* applied to a validated card, is accepted by validateAndConvert when
\* written out as a raw record, and converts back to a card equal to it.
C28_RoundTrip ==
    (/\ converted # NotConverted
     /\ \/ rawData.from = "card" /\ session.origin = "empty"
        \/ rawData.from \in RatingKeys /\ Validated(card))
    => /\ converted.status = "returned"
       /\ converted.card = rawData.card

\* C29 as claimed: for every candidate, whatever the maximumInterval in
\* force, due is strictly later than the candidate's lastReview, and
\* schedule at the due date does not raise the time-backward error.
C29_LoopContinues_AnyMaximum ==
    Returned =>
        \A k \in RatingKeys :
            /\ Cand(k).due > Cand(k).lastReview[1]
            /\ schedule(Cand(k), Cand(k).due).status = "returned"

\* C29: for every candidate computed under a maximumInterval >= 1, due is
\* strictly later than the candidate's lastReview and schedule at due
\* returns; and whatever the parameters, schedule of a card the caller
\* holds raises the time-backward error only at an instant earlier than
\* the card's lastReview.
C29_LoopContinues ==
    /\ (Returned /\ parameters.maximumInterval >= 1) =>
          \A k \in RatingKeys :
              /\ Cand(k).due > Cand(k).lastReview[1]
              /\ schedule(Cand(k), Cand(k).due).status = "returned"
    /\ (/\ result.status = "thrown"
        /\ result.error = "Current time cannot be before the last review") =>
          /\ card.lastReview # Undefined
          /\ result.now < card.lastReview[1]

\* the again candidate of an empty card was applied, and the card is
\* reviewed again at its due date, a day later
C29_Witness ==
    /\ Returned
    /\ session.applied = 1
    /\ parameters.maximumInterval >= 1
    /\ card.lastReview = Some(0)
    /\ card.due = DayLength
    /\ result.now = card.due
    /\ Cand("again").due > result.now

\* C30: a schedule call leaves the Parameters as they are and computes the
\* interval of each of its four candidates from the candidate's stability
\* under the Parameters in force when the call starts; an updateParameters
\* call made while the caller holds a returned result leaves it as it is.
C30_ParametersPerCall ==
    [][/\ (result' # result /\ result'.status = "returned") =>
            /\ parameters' = parameters
            /\ \A k \in RatingKeys :
                  result'.cards[k].card.scheduledDays =
                      nextInterval(result'.cards[k].card.stability)
       /\ (result.status = "returned" /\ parameters' # parameters) =>
            result' = result]_vars

\* the caller holds candidates with intervals of a day and more, computed
\* before maximumInterval was set to 0
C30_Witness ==
    /\ Returned
    /\ parameters.maximumInterval = 0
    /\ \A k \in RatingKeys : Cand(k).scheduledDays >= 1
    /\ Cand("easy").scheduledDays > Cand("again").scheduledDays

====
